---------------------------- MODULE Spec2Model ----------------------------
(***************************************************************************)
(* Periodic financial-series engine of jrdnh/blog-files:                   *)
(*   - generator-caching/caching_blog_post.py  (cached_generator, tee)     *)
(*   - improve-model-navigation/models.py      (Node, FixedIntervalSeries) *)
(*   - improve-model-navigation/utils.py       (merge_series, sumproduct)  *)
(*   - multifamily-financial-model/companion.py (the node classes)         *)
(*                                                                         *)
(* Dates are triples <<year, month, day>> of the proleptic Gregorian       *)
(* calendar (datetime.date); a relativedelta is a record                   *)
(* [years, months, days] of its relative fields.                           *)
(***************************************************************************)
EXTENDS Integers, Sequences, FiniteSets, TLC

VARIABLES
    \* ---- Operations with @cached_generator (caching_blog_post.py) ----
    ops,          \* the Operations objects: ops[o] = [start_date, freq]
    cache,        \* cache[o]: the object's cache attribute, None or the dict,
                  \* held as <<id>> of the tee iterator stored under args = ()
    gen,          \* gen[o]: the generator behind the tee: [curr, starts, yields]
    buf,          \* buf[o]: the tee's shared buffer, the items materialized so far
    tees,         \* the tee iterator objects: tees[id] = items already passed
    enums,        \* the iterators handed to callers: [obj, it, seen]
    \* ---- FixedIntervalSeries.periods (models.py) ----
    series,       \* the node: [ref_date, freq]
    gens,         \* generator objects returned by periods(): [index, seen]
    computed,     \* computed[i]: how often boundary index i was computed (i = 0..)
    stepper,      \* one (uncached) Operations.periods generator on the same
                  \* start date and freq: [curr, seen]
    \* ---- merge_series (utils.py); dates enter the merge as their ordinals ----
    inputs,       \* the sequences given to merge_series
    streams,      \* the input iterators: what each has left to yield
    heap,         \* heapq.merge's heap: heap[i] = <<head of input i>>, <<>> if none
    last_yielded, \* merge_series' last_yielded: <<>> for None, else <<value>>
    merged,       \* what merge_series has yielded so far
    mpc,          \* the merge generator: "new", "run" or "done" (exhausted)
    \* ---- sumproduct (utils.py) ----
    window,       \* [from_dt, to_dt] as dates
    sargs,        \* the series arguments
    dropping,     \* dropwhile is still dropping
    prev,         \* pairwise's previous element: <<>> or <<value>>
    pairs,        \* the (start, end) sub-periods the product was evaluated on
    total,        \* the running sum
    outcome,      \* "running", then "returned" or "raised"
    call,         \* a node's __call__(from_dt, to_dt) over the same window:
                  \* [node, it, last, state], <<>> when none is made
    \* ---- Node (models.py) ----
    nodes,        \* the node objects in order of construction:
                  \* [cls, fields, parent], parent = 0 for _parent None
    built,        \* the node whose construction has just completed (0: none)
    found,        \* the last find_parent call since the last construction:
                  \* <<>> or <<[node, cls, res]>>
    held,         \* the nodes a variable of the program refers to
    alive,        \* the nodes that have not been destroyed
    \* ---- YF (utils.py) ----
    yfargs,       \* the dates <<a, b, c>> the day counts are called on
    yfout,        \* the year fractions returned, in units of 1 / YFUnit
    \* ---- field_values, flatten (utils.py) ----
    etree,        \* the root node given to field_values
    eperiods,     \* the list of (start, end) periods given to it
    values,       \* what field_values returned: [ok, dict], ok false for TypeError
    flat,         \* what flatten returned: a sequence of <<key, value>>
    estage,       \* "new", "values" or "raised", then "flat"
    \* ---- model_dump_json / model_validate_json (companion.py) ----
    stree,        \* the node tree that is serialized
    sdoc,         \* its document: <<>> or <<document>>
    srestored,    \* the tree validated from the document: <<>> or <<tree>>
    sredump,      \* the document of the validated tree: <<>> or <<document>>
    sstage        \* "new", "dumped", "loaded", "redumped"

cacheVars  == <<ops, cache, gen, buf, tees, enums>>
seriesVars == <<series, gens, computed, stepper>>
mergeVars  == <<inputs, streams, heap, last_yielded, merged, mpc>>
sumVars    == <<window, sargs, dropping, prev, pairs, total, outcome, call>>
treeVars   == <<nodes, built, found, held, alive>>
yfVars     == <<yfargs, yfout>>
exportVars == <<etree, eperiods, values, flat, estage>>
serialVars == <<stree, sdoc, srestored, sredump, sstage>>
pureVars   == <<yfVars, exportVars, serialVars>>
vars == <<ops, cache, gen, buf, tees, enums, series, gens, computed, stepper,
          inputs, streams, heap, last_yielded, merged, mpc,
          window, sargs, dropping, prev, pairs, total, outcome, call,
          nodes, built, found, held, alive, yfargs, yfout,
          etree, eperiods, values, flat, estage,
          stree, sdoc, srestored, sredump, sstage>>

-----------------------------------------------------------------------------
(* Bounds of the model *)

\* enumerators (iterators / generator objects) obtained per run
MaxEnums == 3
\* elements drawn from one enumerator
MaxDraw == 3

-----------------------------------------------------------------------------
(* datetime.date and dateutil.relativedelta *)

\* Python's None, where the other values are tuples
None == <<>>

Max(a, b) == IF a >= b THEN a ELSE b
Min(a, b) == IF a <= b THEN a ELSE b

IsLeap(y) == (y % 4 = 0) /\ ((y % 100 # 0) \/ (y % 400 = 0))

\* calendar.monthrange(y, m)[1]
MonthLen(y, m) ==
    IF m = 2 THEN (IF IsLeap(y) THEN 29 ELSE 28)
    ELSE IF m \in {4, 6, 9, 11} THEN 30 ELSE 31

Date(y, m, d) == <<y, m, d>>

\* date.__lt__ / date.__le__
DateLt(a, b) ==
    \/ a[1] < b[1]
    \/ a[1] = b[1] /\ a[2] < b[2]
    \/ a[1] = b[1] /\ a[2] = b[2] /\ a[3] < b[3]
DateLe(a, b) == a = b \/ DateLt(a, b)

\* days in the years before year y (datetime._days_before_year)
DaysBeforeYear(y) ==
    LET p == y - 1 IN 365 * p + (p \div 4) - (p \div 100) + (p \div 400)

RECURSIVE DaysBeforeMonth(_, _)
DaysBeforeMonth(y, m) ==
    IF m = 1 THEN 0 ELSE DaysBeforeMonth(y, m - 1) + MonthLen(y, m - 1)

\* date.toordinal(); dt is evaluated once
ToOrdinal(dt) ==
    LET ordinal(d) == DaysBeforeYear(d[1]) + DaysBeforeMonth(d[1], d[2]) + d[3]
    IN  CHOOSE n \in { ordinal(d) : d \in {dt} } : TRUE

\* date.fromordinal(n); n and the year are evaluated once
FromOrdinal(n) ==
    LET year(o) == CHOOSE yy \in ((o \div 366) .. (o \div 365 + 1)) :
                       DaysBeforeYear(yy) < o /\ o <= DaysBeforeYear(yy + 1)
        date(o, y) ==
            LET r == o - DaysBeforeYear(y)
                m == CHOOSE mm \in 1..12 :
                         /\ DaysBeforeMonth(y, mm) < r
                         /\ r <= DaysBeforeMonth(y, mm) + MonthLen(y, mm)
            IN  Date(y, m, r - DaysBeforeMonth(y, m))
        in_year(o) == CHOOSE dt \in { date(o, y) : y \in {year(o)} } : TRUE
    IN  CHOOSE dt \in { in_year(o) : o \in {n} } : TRUE

\* int(x / 12) and x - 12 * int(x / 12) with Python's truncation toward zero
\* applied to sign * value, as relativedelta._fix does with divmod(months * s, 12)
Sign(x) == IF x < 0 THEN -1 ELSE 1
Abs(x) == IF x < 0 THEN -x ELSE x

\* relativedelta(years=, months=, days=) after relativedelta._fix():
\* months beyond +-11 carry into years; days never carry
RelativeDelta(y, m, d) ==
    IF Abs(m) > 11
    THEN [years |-> y + Sign(m) * (Abs(m) \div 12),
          months |-> Sign(m) * (Abs(m) % 12),
          days |-> d]
    ELSE [years |-> y, months |-> m, days |-> d]

\* relativedelta.__mul__(i), i an integer
Mul(rd, i) == RelativeDelta(rd.years * i, rd.months * i, rd.days * i)

\* relativedelta.__radd__(dt): year and month first, the day clamped to the
\* month's length, then the days as a timedelta
Add(dt, rd) ==
    LET y0 == dt[1] + rd.years
        m0 == dt[2] + rd.months
        y1 == IF m0 > 12 THEN y0 + 1 ELSE IF m0 < 1 THEN y0 - 1 ELSE y0
        m1 == IF m0 > 12 THEN m0 - 12 ELSE IF m0 < 1 THEN m0 + 12 ELSE m0
        d1 == Min(MonthLen(y1, m1), dt[3])
    IN  IF rd.days = 0 THEN Date(y1, m1, d1)
        ELSE FromOrdinal(ToOrdinal(Date(y1, m1, d1)) + rd.days)


-----------------------------------------------------------------------------
(* Inputs the runs draw from *)

\* reference dates: a year end, a first of month, month ends of a leap year
RefDates ==
    { Date(2019, 12, 31), Date(2020, 1, 1), Date(2020, 1, 28),
      Date(2020, 1, 31), Date(2020, 2, 29) }

\* intervals whose years, months and days are all >= 0 and not all zero
PositiveFreqs ==
    { RelativeDelta(0, 1, 0), RelativeDelta(0, 6, 0), RelativeDelta(1, 0, 0),
      RelativeDelta(0, 0, 10), RelativeDelta(0, 1, 3) }

\* every interval the RelativeDelta field accepts: also zero, negative and
\* mixed-sign ones (models.py validates value ranges of the absolute fields only)
Freqs ==
    PositiveFreqs \cup
    { RelativeDelta(0, 0, 0), RelativeDelta(0, -1, 0), RelativeDelta(0, 1, -31) }

-----------------------------------------------------------------------------
(* FixedIntervalSeries.periods, models.py 152-176: a plain generator        *)
(* function; every call makes a generator object of its own                *)

\* index += 1 (line 176)
NextIndexStuck(i) == i
NextIndex(i) == i + 1

\* curr_date + self.freq * index (line 175), curr_date = self.ref_date
YieldValueNext(s, index) == Add(s.ref_date, Mul(s.freq, index + 1))
YieldValue(s, index) == Add(s.ref_date, Mul(s.freq, index))

\* s.periods(): the generator object, its body not yet entered
Periods ==
    /\ Len(gens) < MaxEnums
    /\ gens' = Append(gens, [index |-> 0, seen |-> <<>>])
    /\ UNCHANGED <<series, computed, stepper>>
    /\ UNCHANGED <<cacheVars, mergeVars, sumVars, treeVars, pureVars>>

\* next(g): runs the body to the next yield
PeriodsNext(g) ==
    /\ g \in 1..Len(gens)
    /\ Len(gens[g].seen) < MaxDraw
    /\ LET i == gens[g].index IN
         /\ gens' = [gens EXCEPT ![g] =
                        [index |-> NextIndex(i),
                         seen |-> Append(@.seen, YieldValue(series, i))]]
         /\ computed' = [computed EXCEPT ![i] = @ + 1]
    /\ UNCHANGED <<series, stepper>>
    /\ UNCHANGED <<cacheVars, mergeVars, sumVars, treeVars, pureVars>>

(* Operations.periods, caching_blog_post.py 241-246: the generator body,   *)
(* which advances from the previous period's end                           *)

\* curr = (self.start_date, self.start_date + self.freq) (line 243)
FirstPeriod(o) == <<o.start_date, Add(o.start_date, o.freq)>>

\* curr = (curr[1], curr[1] + self.freq) (line 246); Python's curr[1] is
\* the second component
NextPeriodFromStart(o, curr) == <<curr[2], Add(curr[1], o.freq)>>
NextPeriod(o, curr) == <<curr[2], Add(curr[2], o.freq)>>

\* one next() of an Operations.periods generator held in state c
\* (None before the body was entered): the tuple it yields
GenYield(o, c) == IF c = None THEN FirstPeriod(o) ELSE NextPeriod(o, c)

\* the same series as an Operations object
AsOperations(s) == [start_date |-> s.ref_date, freq |-> s.freq]

StepperNext ==
    /\ Len(stepper.seen) < MaxDraw
    /\ LET y == GenYield(AsOperations(series), stepper.curr) IN
         stepper' = [curr |-> y, seen |-> Append(stepper.seen, y)]
    /\ UNCHANGED <<series, gens, computed>>
    /\ UNCHANGED <<cacheVars, mergeVars, sumVars, treeVars, pureVars>>

\* the parts of the program a run does not exercise stay empty
CacheIdle ==
    /\ ops = <<>> /\ cache = <<>> /\ gen = <<>> /\ buf = <<>>
    /\ tees = <<>> /\ enums = <<>>

SeriesIdle ==
    /\ series = <<>> /\ gens = <<>> /\ computed = <<>> /\ stepper = <<>>

MergeIdle ==
    /\ inputs = <<>> /\ streams = <<>> /\ heap = <<>> /\ last_yielded = <<>>
    /\ merged = <<>> /\ mpc = "idle"

SumIdle ==
    /\ window = <<>> /\ sargs = <<>> /\ dropping = FALSE /\ prev = <<>>
    /\ pairs = <<>> /\ total = 0 /\ outcome = "idle" /\ call = <<>>

TreeIdle ==
    /\ nodes = <<>> /\ built = 0 /\ found = <<>> /\ held = {} /\ alive = {}

YFIdle ==
    /\ yfargs = <<>> /\ yfout = <<>>

ExportIdle ==
    /\ etree = <<>> /\ eperiods = <<>> /\ values = <<>> /\ flat = <<>>
    /\ estage = "idle"

SerialIdle ==
    /\ stree = <<>> /\ sdoc = <<>> /\ srestored = <<>> /\ sredump = <<>>
    /\ sstage = "idle"

PureIdle == YFIdle /\ ExportIdle /\ SerialIdle

InitSeries ==
    /\ series \in [ref_date : RefDates, freq : Freqs]
    /\ gens = <<>>
    /\ computed = [i \in 0..(MaxDraw - 1) |-> 0]
    /\ stepper = [curr |-> None, seen |-> <<>>]
    /\ CacheIdle /\ MergeIdle /\ SumIdle /\ TreeIdle /\ PureIdle

NextSeries ==
    \/ Periods
    \/ \E g \in 1..MaxEnums : PeriodsNext(g)
    \/ StepperNext

SpecSeries == InitSeries /\ [][NextSeries]_vars


\* the generator objects' indices
Gens == 1..Len(gens)

\* every generator object's first element is ref_date
StartsAtFirst ==
    \A g \in Gens : Len(gens[g].seen) >= 1 => gens[g].seen[1] = series.ref_date

\* the years/months/days of an interval are >= 0 and not all zero
IsPositive(rd) ==
    /\ rd.years >= 0 /\ rd.months >= 0 /\ rd.days >= 0
    /\ rd.years + rd.months + rd.days > 0

\* what every generator object has yielded is strictly increasing
StrictlyIncreasing ==
    \A g \in Gens : \A k \in 1..(Len(gens[g].seen) - 1) :
        DateLt(gens[g].seen[k], gens[g].seen[k + 1])

\* the k-th element is ref_date + freq * (k - 1)
FromScratch ==
    \A g \in Gens : \A k \in 1..Len(gens[g].seen) :
        gens[g].seen[k] = Add(series.ref_date, Mul(series.freq, k - 1))

\* each element is the one before it advanced by freq, and the generator
\* that advances from the previous period's end yields the same starts
AdvancesByFreq ==
    /\ \A g \in Gens : \A k \in 1..(Len(gens[g].seen) - 1) :
           gens[g].seen[k + 1] = Add(gens[g].seen[k], series.freq)
    /\ \A g \in Gens :
           \A k \in 1..Min(Len(gens[g].seen), Len(stepper.seen)) :
               gens[g].seen[k] = stepper.seen[k][1]

\* no day-of-month clamping can occur, or the interval is in days only
NoDrift(s) ==
    \/ s.ref_date[3] <= 28 /\ s.freq.days = 0
    \/ s.freq.years = 0 /\ s.freq.months = 0

C4_AnyFreqIncreasing == StartsAtFirst /\ FromScratch /\ StrictlyIncreasing

(* C4, amended: the same, for every freq made of years, months and days     *)
(* that are all >= 0 and not all zero.                                      *)
C4_PositiveFreqIncreasing ==
    IsPositive(series.freq) => StartsAtFirst /\ FromScratch /\ StrictlyIncreasing

\* a monthly series from the 31st has yielded three boundaries
C4_Witness ==
    /\ IsPositive(series.freq)
    /\ series.ref_date[3] = 31 /\ series.freq.months = 1
    /\ \E g \in Gens : Len(gens[g].seen) >= 3

(* C5, as stated: for every reference date and every interval, boundary(i)  *)
(* from scratch equals boundary(i-1) + freq, so the from-scratch generator  *)
(* and the step-by-step generator yield the same sequence.                  *)
C5_IntervalDeterministic == AdvancesByFreq

(* C5, amended: boundary(i) from scratch equals boundary(i-1) + freq, and   *)
(* the two generators agree, when ref_date's day-of-month is at most 28 and *)
(* freq has years and months only, or when freq has days only.              *)
C5_NoDriftDeterministic == NoDrift(series) => AdvancesByFreq

\* both generators of a monthly series that cannot drift have yielded three
C5_Witness ==
    /\ NoDrift(series) /\ series.freq.months = 1
    /\ Len(stepper.seen) >= 3
    /\ \E g \in Gens : Len(gens[g].seen) >= 3


-----------------------------------------------------------------------------
(* cached_generator, caching_blog_post.py 207-225, on Operations.periods    *)
(* (233-246). memoized (128-139) is the same wrapper with one module-level  *)
(* dict instead of one dict per object.                                     *)
(*                                                                         *)
(* itertools.tee(it) of a generator makes two iterators over one shared     *)
(* buffer; tee(t) of a tee iterator t returns t itself and a copy of t at   *)
(* t's place (Python 3.13 returns two copies: the same places).             *)

\* the Operations objects of a run
Objs == {"rev", "exp"}

OpsSet ==
    { [start_date |-> Date(2020, 1, 1),   freq |-> RelativeDelta(0, 1, 0)],
      [start_date |-> Date(2020, 1, 31),  freq |-> RelativeDelta(0, 1, 0)],
      [start_date |-> Date(2019, 12, 31), freq |-> RelativeDelta(0, 0, 10)] }

\* `args not in cache` (line 218), negated
NeverCached(o) == FALSE
Cached(o) == cache[o] # None

\* `cache[args], r = tee(cache[args])` then `return r` (lines 221-222): of the
\* iterator kept in the cache and the fresh copy, the one handed to the caller
HandedCached(kept, copy) == kept
Handed(kept, copy) == copy

\* periods(self) through the wrapper
Wrapper(o) ==
    /\ Len(enums) < MaxEnums
    /\ LET fresh == Len(tees) + 1 IN
       IF ~Cached(o)
       THEN \* cache[args] = func(self): a generator whose body has not run,
            \* then tee(generator): two iterators at the start of a new buffer
            /\ gen' = [gen EXCEPT ![o] =
                          [curr |-> None, starts |-> @.starts + 1, yields |-> @.yields]]
            /\ buf' = [buf EXCEPT ![o] = <<>>]
            /\ tees' = tees \o <<0, 0>>
            /\ cache' = [cache EXCEPT ![o] = <<fresh>>]
            /\ enums' = Append(enums,
                   [obj |-> o, it |-> Handed(fresh, fresh + 1), seen |-> <<>>])
       ELSE \* tee(tee iterator): the cached one stays, a copy is made
            /\ tees' = Append(tees, tees[cache[o][1]])
            /\ enums' = Append(enums,
                   [obj |-> o, it |-> Handed(cache[o][1], fresh), seen |-> <<>>])
            /\ UNCHANGED <<cache, gen, buf>>
    /\ UNCHANGED ops
    /\ UNCHANGED <<seriesVars, mergeVars, sumVars, treeVars, pureVars>>

\* next(r) on a handed iterator: replay from the buffer, or step the
\* generator once, append to the buffer and return the new item
TeeNext(e) ==
    /\ e \in 1..Len(enums)
    /\ Len(enums[e].seen) < MaxDraw
    /\ LET o == enums[e].obj
           it == enums[e].it
           pos == tees[it]
       IN  /\ IF pos < Len(buf[o])
              THEN /\ enums' = [enums EXCEPT ![e].seen = Append(@, buf[o][pos + 1])]
                   /\ UNCHANGED <<gen, buf>>
              ELSE LET y == GenYield(ops[o], gen[o].curr) IN
                   /\ gen' = [gen EXCEPT ![o].curr = y, ![o].yields = @ + 1]
                   /\ buf' = [buf EXCEPT ![o] = Append(@, y)]
                   /\ enums' = [enums EXCEPT ![e].seen = Append(@, y)]
           /\ tees' = [tees EXCEPT ![it] = pos + 1]
    /\ UNCHANGED <<ops, cache>>
    /\ UNCHANGED <<seriesVars, mergeVars, sumVars, treeVars, pureVars>>

InitCache ==
    /\ ops \in [Objs -> OpsSet]
    /\ cache = [o \in Objs |-> None]
    /\ gen = [o \in Objs |-> [curr |-> None, starts |-> 0, yields |-> 0]]
    /\ buf = [o \in Objs |-> <<>>]
    /\ tees = <<>>
    /\ enums = <<>>
    /\ SeriesIdle /\ MergeIdle /\ SumIdle /\ TreeIdle /\ PureIdle

NextCache ==
    \/ \E o \in Objs : Wrapper(o)
    \/ \E e \in 1..MaxEnums : TeeNext(e)

SpecCache == InitCache /\ [][NextCache]_vars

\* the k-th item of a fresh Operations.periods generator of o
RECURSIVE Underlying(_, _)
Underlying(o, k) ==
    IF k = 1 THEN FirstPeriod(o) ELSE NextPeriod(o, Underlying(o, k - 1))

\* the place of enumerator e
Pos(e) == tees[enums[e].it]

\* the largest place among the enumerators of o (0 without any)
RECURSIVE HighWater(_, _)
HighWater(o, n) ==
    IF n = 0 THEN 0
    ELSE Max(IF enums[n].obj = o THEN Pos(n) ELSE 0, HighWater(o, n - 1))

\* every enumerator has seen the underlying sequence from its first element
\* and stands right after what it has seen
C1_PrefixOfUnderlying ==
    \A e \in 1..Len(enums) :
        /\ Pos(e) = Len(enums[e].seen)
        /\ \A k \in 1..Len(enums[e].seen) :
               enums[e].seen[k] = Underlying(ops[enums[e].obj], k)

\* a step changes the place and the observed prefix of one enumerator at
\* most, by one more item, and obtaining an enumerator changes none
C1_OthersUntouched ==
    /\ \A e \in 1..Len(enums) :
           /\ e <= Len(enums')
           /\ enums'[e].obj = enums[e].obj
           /\ \/ enums'[e].seen = enums[e].seen /\ tees'[enums'[e].it] = Pos(e)
              \/ /\ Len(enums') = Len(enums)
                 /\ Len(enums'[e].seen) = Len(enums[e].seen) + 1
                 /\ SubSeq(enums'[e].seen, 1, Len(enums[e].seen)) = enums[e].seen
                 /\ tees'[enums'[e].it] = Pos(e) + 1
                 /\ \A f \in 1..Len(enums) : f # e =>
                        /\ enums'[f].seen = enums[f].seen
                        /\ tees'[enums'[f].it] = Pos(f)
    /\ \A e \in (Len(enums) + 1)..Len(enums') :
           enums'[e].seen = <<>> /\ tees'[enums'[e].it] = 0

(* C1: under any interleaving of obtaining enumerators and drawing from     *)
(* them, every enumerator starts at the first element, the k-th element it  *)
(* draws is the k-th element of the underlying generator, and obtaining or  *)
(* advancing one enumerator never changes the place or the observed prefix  *)
(* of another.                                                              *)
C1_IndependentEnumerators ==
    []C1_PrefixOfUnderlying /\ [][C1_OthersUntouched]_vars

\* an enumerator obtained after another one had advanced: the first has
\* drawn three items, a later one of the same object two
C1_Witness ==
    \E e, f \in 1..Len(enums) :
        /\ e < f /\ enums[e].obj = enums[f].obj
        /\ Len(enums[e].seen) >= 3 /\ Len(enums[f].seen) = 2

(* C2: the generator function is started once per object and argument       *)
(* tuple; it is stepped only when an enumerator moves past the highest      *)
(* index materialized so far, so it produces each index once in total; and  *)
(* the materialized items are the underlying sequence, never changed.       *)
C2_ProducedOnce ==
    \A o \in Objs :
        /\ gen[o].starts <= 1
        /\ (gen[o].starts = 1) = (\E e \in 1..Len(enums) : enums[e].obj = o)
        /\ gen[o].yields = Len(buf[o])
        /\ Len(buf[o]) = HighWater(o, Len(enums))
        /\ \A k \in 1..Len(buf[o]) : buf[o][k] = Underlying(ops[o], k)

\* three enumerators of one object, two of which have drawn the same two
\* indices, the third one more
C2_Witness ==
    \E o \in Objs : \E e, f, g \in 1..Len(enums) :
        /\ e # f /\ f # g /\ e # g
        /\ enums[e].obj = o /\ enums[f].obj = o /\ enums[g].obj = o
        /\ Len(enums[e].seen) = 2 /\ Len(enums[f].seen) = 2
        /\ Len(enums[g].seen) = 3
        /\ gen[o].yields = 3


-----------------------------------------------------------------------------
(* merge_series, utils.py 93-107, over heapq.merge                          *)

\* input sequences of a run: longest length, largest value, most inputs
MaxLen == 2
MaxVal == 2
MaxInputs == 2

\* the ascending (non-decreasing) sequences over 0..MaxVal of length <= MaxLen
Ascending ==
    { q \in UNION { [1..n -> 0..MaxVal] : n \in 0..MaxLen } :
        \A k \in 1..(Len(q) - 1) : q[k] <= q[k + 1] }

\* the docstring's example (lines 97-99)
DocExample == << <<1, 3>>, <<0, 1, 2, 3, 4>> >>

\* an iterator over a sequence of values
ListStream(q) == [kind |-> "list", items |-> q]

\* the periods() generator object of a series node (sumproduct, line 113):
\* FixedIntervalSeries.periods, or AvgVacancyRate.periods (companion.py 55-58)
PeriodsStream(s) == [kind |-> s.kind, node |-> s, index |-> 0]

\* date.max
DateMax == Date(9999, 12, 31)

\* next(it) on an input iterator: <<>> on StopIteration, else <<value>>
StreamHead(st) ==
    IF st.kind = "list"
    THEN (IF st.items = <<>> THEN <<>> ELSE <<st.items[1]>>)
    ELSE IF st.kind = "fixed"
    THEN <<ToOrdinal(YieldValue(st.node, st.index))>>
    ELSE \* "vacancy": islice(super().periods(), len(vacancy_rates)), then date.max
         IF st.index < st.node.rates
         THEN <<ToOrdinal(YieldValue(st.node, st.index))>>
         ELSE IF st.index = st.node.rates THEN <<ToOrdinal(DateMax)>>
         ELSE <<>>

\* a FixedIntervalSeries.periods generator whose interval is zero yields
\* ref_date at every index
Repeats(st) == st.kind = "fixed" /\ st.node.freq = RelativeDelta(0, 0, 0)

\* the iterator after that next(it). The generator objects of a repeating
\* series differ in their index only and yield the same dates from every
\* index: they are kept as one state
StreamRest(st) ==
    IF st.kind = "list"
    THEN (IF st.items = <<>> THEN st ELSE [st EXCEPT !.items = Tail(@)])
    ELSE IF Repeats(st) THEN st
    ELSE [st EXCEPT !.index = NextIndex(@)]

\* heapq.merge, first next(): [next(), order, next] of every input that has
\* an element
HeapFill(sts) == [i \in DOMAIN sts |-> StreamHead(sts[i])]

\* h[0]: the entry with the least [value, order]
HeapTop(h) ==
    CHOOSE i \in DOMAIN h :
        /\ h[i] # <<>>
        /\ \A j \in DOMAIN h : h[j] # <<>> =>
               \/ h[i][1] < h[j][1]
               \/ h[i][1] = h[j][1] /\ i <= j

HeapEmpty(h) == \A i \in DOMAIN h : h[i] = <<>>

\* `if next_value != last_yielded` (line 105)
AlwaysNew(v, last) == TRUE
IsNew(v, last) == <<v>> # last

\* the first next() of the merged generator enters heapq.merge, which draws
\* the first element of every input
MergeFill ==
    /\ mpc = "new"
    /\ heap' = HeapFill(streams)
    /\ streams' = [i \in DOMAIN streams |-> StreamRest(streams[i])]
    /\ mpc' = "run"
    /\ UNCHANGED <<inputs, last_yielded, merged>>
    /\ UNCHANGED <<cacheVars, seriesVars, sumVars, treeVars, pureVars>>

\* one iteration of `for next_value in min_heap` (lines 104-107) for a
\* consumer that takes everything, as list(merged) does
MergeNext ==
    /\ mpc = "run"
    /\ IF HeapEmpty(heap)
       THEN /\ mpc' = "done"
            /\ UNCHANGED <<streams, heap, last_yielded, merged>>
       ELSE LET i == HeapTop(heap)
                v == heap[i][1]
            IN  /\ heap' = [heap EXCEPT ![i] = StreamHead(streams[i])]
                /\ streams' = [streams EXCEPT ![i] = StreamRest(@)]
                /\ IF IsNew(v, last_yielded)
                   THEN /\ merged' = Append(merged, v)
                        /\ last_yielded' = <<v>>
                   ELSE UNCHANGED <<merged, last_yielded>>
                /\ UNCHANGED mpc
    /\ UNCHANGED inputs
    /\ UNCHANGED <<cacheVars, seriesVars, sumVars, treeVars, pureVars>>

InitMerge ==
    /\ inputs \in UNION { [1..n -> Ascending] : n \in 1..MaxInputs } \cup {DocExample}
    /\ streams = [i \in DOMAIN inputs |-> ListStream(inputs[i])]
    /\ heap = <<>>
    /\ last_yielded = <<>>
    /\ merged = <<>>
    /\ mpc = "new"
    /\ CacheIdle /\ SeriesIdle /\ SumIdle /\ TreeIdle /\ PureIdle

NextMerge == MergeFill \/ MergeNext

SpecMerge == InitMerge /\ [][NextMerge]_vars

Range(q) == { q[k] : k \in DOMAIN q }

\* the values of all inputs
InputValues == UNION { Range(inputs[i]) : i \in DOMAIN inputs }

-----------------------------------------------------------------------------
(* sumproduct, utils.py 110-123, as EffectiveGrossIncome.vacancy calls it   *)
(* (companion.py 102-106)                                                   *)

\* most vacancy rates of an AvgVacancyRate (companion.py 53: at least one)
MaxRates == 3
\* boundary indices the expected breakpoints are collected over: past the
\* last window date for every series of SeriesSet
Horizon == 13

\* series nodes with positive intervals; `rate` stands for the node's own
\* fields: the amount it accrues per day
SeriesSet ==
    { [kind |-> "fixed", ref_date |-> Date(2019, 12, 31),
       freq |-> RelativeDelta(0, 1, 0), rates |-> 0, rate |-> 2],
      [kind |-> "fixed", ref_date |-> Date(2020, 1, 15),
       freq |-> RelativeDelta(0, 0, 40), rates |-> 0, rate |-> 3],
      [kind |-> "fixed", ref_date |-> Date(2019, 6, 30),
       freq |-> RelativeDelta(0, 6, 0), rates |-> 0, rate |-> 5] }
    \cup
    { [kind |-> "vacancy", ref_date |-> Date(2019, 12, 31),
       freq |-> RelativeDelta(0, 6, 0), rates |-> n, rate |-> 7] : n \in 1..MaxRates }

WindowDates ==
    { Date(2019, 12, 31), Date(2020, 2, 15), Date(2020, 6, 30), Date(2020, 12, 31) }

From == ToOrdinal(window.from_dt)
To == ToOrdinal(window.to_dt)

\* s(dt1, dt2) (line 123): the node's amount over (dt1, dt2], here its rate
\* times the days elapsed
Call(s, dt1, dt2) == s.rate * (dt2 - dt1)

\* math.prod(s(dt1, dt2) for s in series)
RECURSIVE Prod(_, _, _)
Prod(args, dt1, dt2) ==
    IF args = <<>> THEN 1
    ELSE Call(args[1], dt1, dt2) * Prod(Tail(args), dt1, dt2)

\* takewhile(lambda dt: dt <= to_dt, ...) (line 118)
TakeBefore(dt) == dt < To
Take(dt) == dt <= To

\* dropwhile(lambda dt: dt < from_dt, ...) (lines 117-118)
Drop(dt) == dt < From

\* one element drawn by sum() through pairwise, dropwhile and takewhile from
\* the merged generator: one iteration of merge_series' loop and what the
\* element, if yielded, goes through
SumStep ==
    /\ mpc = "run"
    /\ outcome = "running"
    /\ IF HeapEmpty(heap)
       THEN \* the merge is exhausted and so is every iterator over it
            /\ mpc' = "done"
            /\ outcome' = "returned"
            /\ UNCHANGED <<streams, heap, last_yielded, merged>>
            /\ UNCHANGED <<dropping, prev, pairs, total>>
       ELSE LET i == HeapTop(heap)
                v == heap[i][1]
            IN  /\ heap' = [heap EXCEPT ![i] = StreamHead(streams[i])]
                /\ streams' = [streams EXCEPT ![i] = StreamRest(@)]
                /\ UNCHANGED mpc
                /\ IF ~IsNew(v, last_yielded)
                   THEN UNCHANGED <<merged, last_yielded, dropping, prev,
                                    pairs, total, outcome>>
                   ELSE /\ merged' = Append(merged, v)
                        /\ last_yielded' = <<v>>
                        /\ IF ~Take(v)
                           THEN \* takewhile ends; sum() returns
                                /\ outcome' = "returned"
                                /\ UNCHANGED <<dropping, prev, pairs, total>>
                           ELSE IF dropping /\ Drop(v)
                           THEN UNCHANGED <<dropping, prev, pairs, total, outcome>>
                           ELSE /\ dropping' = FALSE
                                /\ prev' = <<v>>
                                /\ IF prev = <<>>
                                   THEN UNCHANGED <<pairs, total>>
                                   ELSE /\ pairs' = Append(pairs, <<prev[1], v>>)
                                        /\ total' = total + Prod(sargs, prev[1], v)
                                /\ UNCHANGED outcome
    /\ UNCHANGED <<inputs, window, sargs, call>>
    /\ UNCHANGED <<cacheVars, seriesVars, treeVars, pureVars>>

\* sumproduct(from_dt, to_dt, *series) has been called: the generators exist
\* (lines 113-120), nothing has been drawn
InitSum ==
    /\ window \in [from_dt : WindowDates, to_dt : WindowDates]
    /\ sargs \in UNION { [1..n -> SeriesSet] : n \in 1..2 }
    /\ inputs = <<>>
    /\ streams = [i \in 1..(Len(sargs) + 1) |->
                     IF i <= Len(sargs) THEN PeriodsStream(sargs[i])
                     ELSE ListStream(<<From, To>>)]
    /\ heap = <<>>
    /\ last_yielded = <<>>
    /\ merged = <<>>
    /\ mpc = "new"
    /\ dropping = TRUE
    /\ prev = <<>>
    /\ pairs = <<>>
    /\ total = 0
    /\ outcome = "running"
    /\ call = <<>>
    /\ CacheIdle /\ SeriesIdle /\ TreeIdle /\ PureIdle

NextSum == MergeFill \/ SumStep

SpecSum == InitSum /\ [][NextSum]_vars

\* the boundaries of a series, as ordinals
BoundarySet(s) ==
    IF s.kind = "fixed"
    THEN { ToOrdinal(Add(s.ref_date, Mul(s.freq, i))) : i \in 0..Horizon }
    ELSE { ToOrdinal(Add(s.ref_date, Mul(s.freq, i))) : i \in 0..(s.rates - 1) }
         \cup {ToOrdinal(DateMax)}

\* from_dt, to_dt and every boundary of every series within [from_dt, to_dt]
Breakpoints ==
    {From, To} \cup
    { b \in UNION { BoundarySet(sargs[k]) : k \in DOMAIN sargs } : From <= b /\ b <= To }

RECURSIVE Sorted(_)
Sorted(S) ==
    IF S = {} THEN <<>>
    ELSE LET m == CHOOSE x \in S : \A y \in S : x <= y
         IN  <<m>> \o Sorted(S \ {m})

ConsecutivePairs(q) == [k \in 1..(Len(q) - 1) |-> <<q[k], q[k + 1]>>]

RECURSIVE SumOver(_)
SumOver(ps) ==
    IF ps = <<>> THEN 0
    ELSE Prod(sargs, ps[1][1], ps[1][2]) + SumOver(Tail(ps))

(* C7: for from_dt < to_dt the sub-periods the product is evaluated on are  *)
(* the consecutive pairs of the strictly increasing list of from_dt, to_dt  *)
(* and every series boundary within [from_dt, to_dt]: the first starts at   *)
(* from_dt, the last ends at to_dt, each ends where the next starts, a      *)
(* shared breakpoint appears once, and the result is the sum over them of   *)
(* the product of every series on (start, end).                             *)
C7_SubPeriodsAtBreakpoints ==
    (outcome = "returned" /\ From < To) =>
        /\ pairs = ConsecutivePairs(Sorted(Breakpoints))
        /\ pairs # <<>>
        /\ pairs[1][1] = From
        /\ pairs[Len(pairs)][2] = To
        /\ \A k \in 1..(Len(pairs) - 1) : pairs[k][2] = pairs[k + 1][1]
        /\ \A k \in 1..Len(pairs) : pairs[k][1] < pairs[k][2]
        /\ total = SumOver(pairs)

\* a returned sumproduct of two series that share a breakpoint strictly
\* inside the window, which starts and ends off their boundaries
C7_Witness ==
    /\ outcome = "returned" /\ From < To
    /\ Len(sargs) = 2 /\ sargs[1] # sargs[2]
    /\ \E b \in BoundarySet(sargs[1]) \cap BoundarySet(sargs[2]) : From < b /\ b < To
    /\ From \notin BoundarySet(sargs[1]) \cup BoundarySet(sargs[2])
    /\ Len(pairs) >= 4

(* C8: an evaluation entry point rejects a window with to_dt <= from_dt by  *)
(* raising an invalid-period-window error; it never returns a number for it *)
C8_RejectsEmptyWindow ==
    (outcome # "running" /\ To <= From) => outcome = "raised"


-----------------------------------------------------------------------------
(* Termination: a node's __call__ loop over pairwise(self.periods())        *)
(* (companion.py 27-41, 60-77, 84-95) followed by sumproduct over the same  *)
(* window, as EffectiveGrossIncome.__call__ runs them (companion.py 108-110)*)

\* a series the RelativeDelta field accepts with an interval of zero; its
\* one boundary lies after the earliest window end and before the others
ZeroSeries ==
    [kind |-> "fixed", ref_date |-> Date(2020, 3, 31),
     freq |-> RelativeDelta(0, 0, 0), rates |-> 0, rate |-> 11]

TermSeries == SeriesSet \cup {ZeroSeries}

\* s.__call__(from_dt, to_dt) has been entered: pairwise(self.periods())
\* exists, nothing has been drawn
EnterCall(s) ==
    [node |-> s, it |-> PeriodsStream(s), last |-> <<>>, pair |-> <<>>, state |-> "next"]

\* next() of pairwise(it): <<>> on StopIteration, else <<per_start, per_end>>;
\* the first next() draws two elements, every later one a single element
PairHead(c) ==
    IF c.last = <<>>
    THEN LET a == StreamHead(c.it)
             b == StreamHead(StreamRest(c.it))
         IN  IF a = <<>> \/ b = <<>> THEN <<>> ELSE <<a[1], b[1]>>
    ELSE LET b == StreamHead(c.it)
         IN  IF b = <<>> THEN <<>> ELSE <<c.last[1], b[1]>>

\* the periods generator after that next()
PairRest(c) ==
    IF c.last = <<>> THEN StreamRest(StreamRest(c.it)) ELSE StreamRest(c.it)

\* `if per_start >= to_dt: break` (lines 32-33, 67-68), the condition that
\* ends takewhile(lambda per: per[0] < to_dt, ...) (line 88)
NeverBreak(per_start) == FALSE
Break(per_start) == per_start >= To

\* what follows the loop: AvgVacancyRate divides by the year fraction of the
\* window's overlap with the series' periods (line 77), which is zero when
\* the window ends at or before ref_date; the others divide by the window's
\* year fraction (line 41) or add nothing more (line 95)
AfterLoop(s) ==
    IF s.kind = "vacancy" /\ To <= ToOrdinal(s.ref_date) THEN "raised" ELSE "returned"

\* the for statement draws the next pair (for AvgVacancyRate through zip with
\* vacancy_rates, which ends with the pairs); the loop ends when there is none
CallNext ==
    /\ call # <<>>
    /\ call.state = "next"
    /\ \E pr \in {PairHead(call)} :
         IF pr = <<>>
         THEN call' = [call EXCEPT !.it = PairRest(call), !.state = AfterLoop(call.node)]
         ELSE call' = [call EXCEPT !.it = PairRest(call), !.last = <<pr[2]>>,
                                   !.pair = pr, !.state = "body"]
    /\ UNCHANGED <<window, sargs, dropping, prev, pairs, total, outcome>>
    /\ UNCHANGED <<cacheVars, seriesVars, mergeVars, treeVars, pureVars>>

\* the loop body: break once per_start has reached to_dt, else compute the
\* period's amounts and go on to the next pair
CallBody ==
    /\ call # <<>>
    /\ call.state = "body"
    /\ IF Break(call.pair[1])
       THEN call' = [call EXCEPT !.state = AfterLoop(call.node)]
       ELSE call' = [call EXCEPT !.state = "next"]
    /\ UNCHANGED <<window, sargs, dropping, prev, pairs, total, outcome>>
    /\ UNCHANGED <<cacheVars, seriesVars, mergeVars, treeVars, pureVars>>

\* the node's call has returned and vacancy() calls sumproduct (companion.py
\* 104-106), which makes the generators (utils.py 113-120); an exception of
\* the node's call would have propagated instead
Vacancy ==
    /\ call # <<>>
    /\ call.state = "returned"
    /\ mpc = "idle"
    /\ streams' = [i \in 1..(Len(sargs) + 1) |->
                      IF i <= Len(sargs) THEN PeriodsStream(sargs[i])
                      ELSE ListStream(<<From, To>>)]
    /\ mpc' = "new"
    /\ outcome' = "running"
    /\ UNCHANGED <<inputs, heap, last_yielded, merged>>
    /\ UNCHANGED <<window, sargs, dropping, prev, pairs, total, call>>
    /\ UNCHANGED <<cacheVars, seriesVars, treeVars, pureVars>>

\* series[0](from_dt, to_dt) has been called on a window with from_dt < to_dt;
\* sumproduct(from_dt, to_dt, *series) follows. The node called may have an
\* interval of zero
InitTerm ==
    /\ window \in { w \in [from_dt : WindowDates, to_dt : WindowDates] :
                       DateLt(w.from_dt, w.to_dt) }
    /\ sargs \in { <<s>> : s \in TermSeries } \cup (TermSeries \X SeriesSet)
    /\ MergeIdle
    /\ dropping = TRUE
    /\ prev = <<>>
    /\ pairs = <<>>
    /\ total = 0
    /\ outcome = "idle"
    /\ call = EnterCall(sargs[1])
    /\ CacheIdle /\ SeriesIdle /\ TreeIdle /\ PureIdle

NextTerm == CallNext \/ CallBody \/ Vacancy \/ MergeFill \/ SumStep

\* the interpreter runs the next step of the statement it is in
SpecTerm == InitTerm /\ [][NextTerm]_vars /\ WF_vars(NextTerm)

\* the node's call has raised, or it has returned and so has sumproduct
Terminated ==
    \/ call.state = "raised"
    \/ call.state = "returned" /\ outcome \in {"returned", "raised"}

\* every series given has a positive interval: its boundaries increase strictly
AllIncreasing == \A k \in DOMAIN sargs : IsPositive(sargs[k].freq)

\* the number of boundaries of a series up to to_dt
UpTo(s) == Cardinality({ b \in BoundarySet(s) : b <= To })

\* next() calls made so far on a periods generator
Drawn(st) == st.index

\* no generator has been advanced past the second element after its
\* boundaries up to to_dt
DrawsBounded ==
    /\ \A k \in DOMAIN streams :
           k <= Len(sargs) => Drawn(streams[k]) <= UpTo(sargs[k]) + 2
    /\ Drawn(call.it) <= UpTo(call.node) + 2

(* C17, as stated: for every window with from_dt < to_dt and every set of   *)
(* series whose boundary sequences are unbounded (or finite then date.max,  *)
(* as AvgVacancyRate's), the node's __call__ and sumproduct terminate.      *)
C17_AlwaysTerminates == <>Terminated

(* C17, for series whose boundaries increase strictly (a positive           *)
(* interval): the node's __call__ and sumproduct terminate, and they draw   *)
(* from each series no more than its boundaries up to to_dt and the two     *)
(* elements after them.                                                     *)
C17_IncreasingTerminates ==
    /\ [](AllIncreasing => DrawsBounded)
    /\ (AllIncreasing ~> Terminated)

\* a returned __call__ of an unbounded series, then a returned sumproduct of
\* it and an AvgVacancyRate whose rates run out inside the window
C17_Witness ==
    /\ Terminated /\ outcome = "returned" /\ call.state = "returned"
    /\ Len(sargs) = 2
    /\ sargs[1].kind = "fixed" /\ sargs[2].kind = "vacancy"
    /\ AllIncreasing
    /\ Drawn(streams[1]) >= 3 /\ Drawn(streams[2]) > sargs[2].rates
    /\ Drawn(call.it) >= 3


-----------------------------------------------------------------------------
(* Node, models.py 101-136: parent back-references and find_parent          *)

\* nodes constructed in a run
MaxNodes == 3
\* longest list held in a list field
MaxList == 2

\* node classes by the fields they declare: none but scalars (Revenue,
\* AvgMonthlyRentPSF), one node (Expenses, GrossPotentialRent), two nodes
\* (NetIncome), a list (list[...] as AvgVacancyRate.vacancy_rates, of nodes)
Classes == {"Revenue", "Expenses", "NetIncome", "Portfolio"}

\* every class derives from Node
BaseClass == "Node"

ScalarValue == [kind |-> "scalar", ids |-> <<>>]
NodeValue(i) == [kind |-> "node", ids |-> <<i>>]
ListValue(q) == [kind |-> "list", ids |-> q]

\* the field values a constructor call of class c can be given, the nodes
\* 1..k being there to pass
FieldsOf(c, k) ==
    IF c = "Revenue" THEN { <<ScalarValue>> }
    ELSE IF c = "Expenses" THEN { <<ScalarValue, NodeValue(i)>> : i \in 1..k }
    ELSE IF c = "NetIncome"
    THEN { <<NodeValue(i), NodeValue(j)>> : i \in 1..k, j \in 1..k }
    ELSE { <<ScalarValue, ListValue(q)>> :
               q \in UNION { [1..n -> 1..k] : n \in 0..MaxList } }

\* the nodes among the field values of n, held directly or inside a list
NodeValued(n) ==
    UNION { Range(nodes[n].fields[f].ids) : f \in DOMAIN nodes[n].fields }

\* the parent property (lines 114-117): the referent of _parent, 0 for None
Parent(n) == nodes[n].parent

\* isinstance(node, cls)
IsInstance(n, cls) == cls = BaseClass \/ nodes[n].cls = cls

\* `v.parent = self` in model_post_init (lines 109-112): the setter exists
\* on a Node; a list, a date or a number raises AttributeError, which is
\* passed over
AcceptsParent(v) == v.kind = "node"

\* model_post_init(self) for the node `self` with field values fs: the
\* nodes after `v.parent = self` was tried on every field value in order
PostInit(ns, self, fs) ==
    [n \in DOMAIN ns |->
        IF \E f \in DOMAIN fs : AcceptsParent(fs[f]) /\ fs[f].ids[1] = n
        THEN [ns[n] EXCEPT !.parent = self]
        ELSE ns[n]]

\* cls(**fields): the fields are populated, then model_post_init runs; the
\* caller holds the new node
Construct(c, fs) ==
    /\ Len(nodes) < MaxNodes
    /\ LET self == Len(nodes) + 1 IN
         /\ nodes' = PostInit(Append(nodes, [cls |-> c, fields |-> fs, parent |-> 0]),
                              self, fs)
         /\ built' = self
         /\ held' = held \cup {self}
         /\ alive' = alive \cup {self}
    /\ found' = <<>>
    /\ UNCHANGED <<cacheVars, seriesVars, mergeVars, sumVars, pureVars>>

NotFound == [ok |-> FALSE, node |-> 0]

\* a find_parent that looks at the immediate parent only
FindParentImmediate(n, cls) ==
    IF Parent(n) # 0 /\ IsInstance(Parent(n), cls)
    THEN [ok |-> TRUE, node |-> Parent(n)]
    ELSE NotFound

\* find_parent(self, cls) (lines 129-136): the parent if it is an instance
\* of cls, else the parent's find_parent; None has no find_parent, and the
\* AttributeError becomes ValueError
RECURSIVE FindParent(_, _)
FindParent(n, cls) ==
    IF Parent(n) # 0 /\ IsInstance(Parent(n), cls)
    THEN [ok |-> TRUE, node |-> Parent(n)]
    ELSE IF Parent(n) = 0 THEN NotFound
    ELSE FindParent(Parent(n), cls)

\* a call n.find_parent(cls)
CallFindParent(n, cls) ==
    /\ n \in 1..Len(nodes)
    /\ found' = <<[node |-> n, cls |-> cls, res |-> FindParent(n, cls)]>>
    /\ built' = 0
    /\ UNCHANGED <<nodes, held, alive>>
    /\ UNCHANGED <<cacheVars, seriesVars, mergeVars, sumVars, pureVars>>

InitTree ==
    /\ nodes = <<>>
    /\ built = 0
    /\ found = <<>>
    /\ held = {}
    /\ alive = {}
    /\ CacheIdle /\ SeriesIdle /\ MergeIdle /\ SumIdle /\ PureIdle

NextTree ==
    \/ \E c \in Classes : \E fs \in FieldsOf(c, Len(nodes)) : Construct(c, fs)
    \/ \E n \in 1..MaxNodes : \E cls \in Classes \cup {BaseClass} :
           CallFindParent(n, cls)

SpecTree == InitTree /\ [][NextTree]_vars

\* the k-th ancestor of n along the parent references, 0 when there is none
RECURSIVE Ancestor(_, _)
Ancestor(n, k) ==
    IF k = 0 THEN n
    ELSE IF Ancestor(n, k - 1) = 0 THEN 0
    ELSE Parent(Ancestor(n, k - 1))

\* the depths at which n has an ancestor that is an instance of cls
MatchingDepths(n, cls) ==
    { k \in 1..Len(nodes) : Ancestor(n, k) # 0 /\ IsInstance(Ancestor(n, k), cls) }

(* C9: find_parent(cls) returns the nearest ancestor that is an instance of *)
(* cls, starting at the node's parent: never the node itself, never a       *)
(* farther ancestor when a nearer one matches; when no ancestor matches,    *)
(* also when the node has no parent, it fails with ValueError.              *)
C9_NearestAncestor ==
    found # <<>> =>
        LET n == found[1].node
            depths == MatchingDepths(n, found[1].cls)
            res == found[1].res
        IN  IF depths = {}
            THEN res = NotFound
            ELSE /\ res.ok
                 /\ res.node # n
                 /\ \E k \in depths :
                        /\ res.node = Ancestor(n, k)
                        /\ \A j \in depths : k <= j

\* a grandchild found its grandparent, its parent being of another class
C9_Witness ==
    /\ found # <<>>
    /\ found[1].res.ok
    /\ found[1].cls # BaseClass
    /\ found[1].res.node = Ancestor(found[1].node, 2)
    /\ nodes[Parent(found[1].node)].cls # found[1].cls

(* C10: right after a node is constructed, every node among its field       *)
(* values, held directly in a field or inside a list field, has the         *)
(* constructed node as its parent.                                          *)
C10_ChildrenWired ==
    built # 0 => \A c \in NodeValued(built) : Parent(c) = built


-----------------------------------------------------------------------------
(* Node._parent, models.py 102-127: the weak reference and the lifetime of  *)
(* the parent                                                               *)

\* the FixedIntervalSeries classes of companion.py: every node of the
\* financial model has ref_date and freq; AvgMonthlyRentPSF has numbers
\* besides, GrossPotentialRent a number and a node
SeriesClasses == {"AvgMonthlyRentPSF", "GrossPotentialRent"}

\* a relativedelta held in a field (freq)
FreqValue == [kind |-> "relativedelta", ids |-> <<>>]

\* the field values cls(ref_date=..., freq=RelativeDelta(...), ...) is given,
\* the nodes in `have` being there to pass
SeriesFieldsOf(c, have) ==
    IF c = "AvgMonthlyRentPSF"
    THEN { <<ScalarValue, FreqValue, ScalarValue, ScalarValue>> }
    ELSE { <<ScalarValue, FreqValue, ScalarValue, NodeValue(i)>> : i \in have }

\* `v.parent = self` in model_post_init (lines 109-112) on a relativedelta:
\* a plain Python object, it takes the attribute and refers to the node
KeepsParent(v) == v.kind = "relativedelta"

\* the node is referred to by the freq it holds
OwnsItself(n) ==
    \E f \in DOMAIN nodes[n].fields : KeepsParent(nodes[n].fields[f])

\* the reference count of p is not zero: a variable, a field of another
\* live node or its own freq refers to it; _parent of a child is a
\* weakref.ref and does not count (line 122)
Referenced(p, H, A) ==
    \/ p \in H
    \/ OwnsItself(p)
    \/ \E m \in A \ {p} : p \in NodeValued(m)

\* the nodes deallocated when the references H are left to the live nodes
\* A: those with no reference, then those only they referred to
RECURSIVE Freed(_, _)
Freed(H, A) ==
    LET D == { p \in A : ~Referenced(p, H, A) }
    IN  IF D = {} THEN {} ELSE D \cup Freed(H, A \ D)

\* the nodes reachable from the nodes S through fields
RECURSIVE Reach(_)
Reach(S) ==
    LET T == S \cup UNION { NodeValued(m) : m \in S }
    IN  IF T = S THEN S ELSE Reach(T)

\* weakref.ref: once the referent is destroyed, self._parent() is None
ClearRefs(ns, D) ==
    [n \in DOMAIN ns |->
        IF ns[n].parent \in D THEN [ns[n] EXCEPT !.parent = 0] ELSE ns[n]]

\* the node, its parent, the parent's parent, ...
RECURSIVE Chain(_)
Chain(n) == IF Parent(n) = 0 THEN {n} ELSE {n} \cup Chain(Parent(n))

\* node.set_parent(parent) / node.parent = parent (lines 119-127)
SetParent(n, p) ==
    /\ n \in held /\ p \in held
    /\ n \notin Chain(p)
    /\ nodes' = [nodes EXCEPT ![n].parent = p]
    /\ built' = 0
    /\ found' = <<>>
    /\ UNCHANGED <<held, alive>>
    /\ UNCHANGED <<cacheVars, seriesVars, mergeVars, sumVars, pureVars>>

\* `del name`: the last variable referring to n goes away; reference
\* counting deallocates what is left without a reference
Release(n) ==
    /\ n \in held
    /\ held' = held \ {n}
    /\ LET D == Freed(held', alive) IN
         /\ alive' = alive \ D
         /\ nodes' = ClearRefs(nodes, D)
    /\ built' = 0
    /\ found' = <<>>
    /\ UNCHANGED <<cacheVars, seriesVars, mergeVars, sumVars, pureVars>>

\* a run of the cyclic garbage collector, at a time the program does not
\* choose: the live nodes no variable reaches are destroyed
Collect ==
    /\ LET D == alive \ Reach(held) IN
         /\ D # {}
         /\ alive' = alive \ D
         /\ nodes' = ClearRefs(nodes, D)
    /\ built' = 0
    /\ found' = <<>>
    /\ UNCHANGED held
    /\ UNCHANGED <<cacheVars, seriesVars, mergeVars, sumVars, pureVars>>

InitLife == InitTree

NextLife ==
    \/ \E fs \in FieldsOf("Revenue", Len(nodes)) : Construct("Revenue", fs)
    \/ \E c \in SeriesClasses : \E fs \in SeriesFieldsOf(c, held) : Construct(c, fs)
    \/ \E n \in held : \E p \in held : SetParent(n, p)
    \/ \E n \in held : Release(n)
    \/ Collect
    \/ \E n \in held : CallFindParent(n, BaseClass)

SpecLife == InitLife /\ [][NextLife]_vars

\* something other than p refers to p: a variable or a field of another
\* live node
ReferencedByOther(p) ==
    p \in held \/ \E m \in alive \ {p} : p \in NodeValued(m)

(* C11: the parent a node reads is one that still exists and that          *)
(* something other than the child's back-reference refers to: once nothing *)
(* else refers to the parent it is destroyed, node.parent reads None and   *)
(* find_parent from the node fails with not-found.                         *)
C11_AbsentOnceUnreferenced ==
    /\ \A n \in held :
           Parent(n) # 0 => Parent(n) \in alive /\ ReferencedByOther(Parent(n))
    /\ (found # <<>> /\ found[1].res.ok) => ReferencedByOther(found[1].res.node)


-----------------------------------------------------------------------------
(* YF, utils.py 17-88: the day-count conventions                            *)

\* A year fraction is held exactly, as a whole number of units of
\* 1 / YFUnit of a year: 360, 12 and 12 times every month length divide
\* YFUnit, so each quotient the conventions take is a whole number of units.
YFUnit == 12 * 28 * 29 * 30 * 31

\* the dates the conventions are called on: month ends, 30th and 31st, the
\* end of February in a leap and in a common year, days inside a month
YFDates ==
    { Date(2019, 12, 15), Date(2019, 12, 31), Date(2020, 1, 1), Date(2020, 1, 15),
      Date(2020, 1, 29), Date(2020, 1, 30), Date(2020, 1, 31), Date(2020, 2, 1),
      Date(2020, 2, 15), Date(2020, 2, 29), Date(2020, 3, 30), Date(2020, 3, 31),
      Date(2020, 4, 30), Date(2020, 6, 1), Date(2020, 7, 1), Date(2021, 2, 28) }

\* is_month_end(dt) (lines 17-18)
is_month_end(dt) == dt[3] = MonthLen(dt[1], dt[2])

\* a swap that leaves the sign alone
NeverFlipped(dt1, dt2) == 1

\* `if dt1 > dt2: dt1, dt2 = dt2, dt1; flipped = -1` (lines 33-36, 69-72)
Flipped(dt1, dt2) == IF DateLt(dt2, dt1) THEN -1 ELSE 1
Earlier(dt1, dt2) == IF DateLt(dt2, dt1) THEN dt2 ELSE dt1
Later(dt1, dt2) == IF DateLt(dt2, dt1) THEN dt1 ELSE dt2

\* YF.actual360 (lines 23-24)
actual360(dt1, dt2) ==
    (ToOrdinal(dt2) - ToOrdinal(dt1)) * (YFUnit \div 360)

\* YF.thirty360 (lines 27-51)
thirty360(dt1, dt2) ==
    LET a == Earlier(dt1, dt2)
        b == Later(dt1, dt2)
        feb1 == a[2] = 2 /\ is_month_end(a)
        feb2 == b[2] = 2 /\ is_month_end(b)
        d2a == IF feb2 /\ feb1 THEN 30 ELSE b[3]
        d2 == IF d2a = 31 /\ a[3] >= 30 THEN 30 ELSE d2a
        d1a == IF a[3] = 31 THEN 30 ELSE a[3]
        d1 == IF feb1 THEN 30 ELSE d1a
        days == (d2 + b[2] * 30 + b[1] * 360) - (d1 + a[2] * 30 + a[1] * 360)
    IN  days * (YFUnit \div 360) * Flipped(dt1, dt2)

\* year_month_frac (line 78)
year_month_frac(a, b) ==
    ((b[1] * 360 + b[2] * 30) - (a[1] * 360 + a[2] * 30)) * (YFUnit \div 360)

\* a start stub that takes every month to have 30 days
start_stub_30(dt) == (30 - dt[3]) * ((YFUnit \div 12) \div 30)

\* start_stub / 12 (lines 81-82, 88): the days left in the month of dt1
\* over the days of that month
start_stub(dt) ==
    (MonthLen(dt[1], dt[2]) - dt[3]) * ((YFUnit \div 12) \div MonthLen(dt[1], dt[2]))

\* an end stub that counts the days gone by in the month
end_stub_elapsed(dt) == dt[3] * ((YFUnit \div 12) \div MonthLen(dt[1], dt[2]))

\* end_stub / 12 (lines 85-86, 88): the days left in the month of dt2
end_stub(dt) ==
    (MonthLen(dt[1], dt[2]) - dt[3]) * ((YFUnit \div 12) \div MonthLen(dt[1], dt[2]))

\* YF.monthly (lines 54-88)
monthly(dt1, dt2) ==
    LET a == Earlier(dt1, dt2)
        b == Later(dt1, dt2)
    IN  (year_month_frac(a, b) + (start_stub(a) - end_stub(b))) * Flipped(dt1, dt2)

Conventions == {"actual360", "thirty360", "monthly"}

YF(conv, dt1, dt2) ==
    IF conv = "actual360" THEN actual360(dt1, dt2)
    ELSE IF conv = "thirty360" THEN thirty360(dt1, dt2)
    ELSE monthly(dt1, dt2)

\* the convention conv is called on the pairs of the dates a, b, c
CallYF(conv) ==
    /\ yfout' = [conv |-> conv,
                 ab |-> YF(conv, yfargs[1], yfargs[2]),
                 ba |-> YF(conv, yfargs[2], yfargs[1]),
                 aa |-> YF(conv, yfargs[1], yfargs[1]),
                 bc |-> YF(conv, yfargs[2], yfargs[3]),
                 ac |-> YF(conv, yfargs[1], yfargs[3])]
    /\ UNCHANGED yfargs
    /\ UNCHANGED <<cacheVars, seriesVars, mergeVars, sumVars, treeVars, exportVars,
                   serialVars>>

InitYF ==
    /\ yfargs \in YFDates \X YFDates \X YFDates
    /\ yfout = [conv |-> "none", ab |-> 0, ba |-> 0, aa |-> 0, bc |-> 0, ac |-> 0]
    /\ CacheIdle /\ SeriesIdle /\ MergeIdle /\ SumIdle /\ TreeIdle /\ ExportIdle
    /\ SerialIdle

NextYF == \E conv \in Conventions : CallYF(conv)

SpecYF == InitYF /\ [][NextYF]_vars

(* C12: for each convention yf and all dates d1, d2, yf(d1, d2) is the     *)
(* negative of yf(d2, d1), and yf(d1, d1) is 0.                            *)
C12_Antisymmetric ==
    yfout.conv # "none" => yfout.ab = -yfout.ba /\ yfout.aa = 0

\* thirty360 from the end of February back to the 31st of January
C12_Witness ==
    /\ yfout.conv = "thirty360"
    /\ yfargs[1] = Date(2020, 2, 29) /\ yfargs[2] = Date(2020, 1, 31)
    /\ yfout.ab = -29 * (YFUnit \div 360)

\* b lies in the calendar month after that of a
OneMonthAfter(a, b) == (b[1] * 12 + b[2]) - (a[1] * 12 + a[2]) = 1
SameDay(a, b) == a[3] = b[3]
BothMonthEnd(a, b) == is_month_end(a) /\ is_month_end(b)
SameMonthLen(a, b) == MonthLen(a[1], a[2]) = MonthLen(b[1], b[2])

(* C13 as stated: monthly(d1, d2) is exactly 1/12 whenever d2 is one       *)
(* calendar month after d1 and both have the same day of the month or both *)
(* are the last day of their month.                                        *)
C13_TwelfthOnSameDay ==
    ( /\ yfout.conv = "monthly"
      /\ OneMonthAfter(yfargs[1], yfargs[2])
      /\ SameDay(yfargs[1], yfargs[2]) \/ BothMonthEnd(yfargs[1], yfargs[2]) )
    => yfout.ab = YFUnit \div 12

(* C13: monthly(d1, d2) is exactly 1/12 whenever d2 is one calendar month  *)
(* after d1 and both are the last day of their month, or both have the     *)
(* same day of the month in months of the same length.                     *)
C13_TwelfthOnEqualStubs ==
    ( /\ yfout.conv = "monthly"
      /\ OneMonthAfter(yfargs[1], yfargs[2])
      /\ \/ BothMonthEnd(yfargs[1], yfargs[2])
         \/ SameDay(yfargs[1], yfargs[2]) /\ SameMonthLen(yfargs[1], yfargs[2]) )
    => yfout.ab = YFUnit \div 12

\* monthly from the end of January to the end of February
C13_Witness ==
    /\ yfout.conv = "monthly"
    /\ yfargs[1] = Date(2020, 1, 31) /\ yfargs[2] = Date(2020, 2, 29)
    /\ yfout.ab = YFUnit \div 12

(* C18: monthly is additive over adjacent intervals: for dates             *)
(* a <= b <= c, monthly(a, b) + monthly(b, c) = monthly(a, c).             *)
C18_MonthlyAdditive ==
    ( /\ yfout.conv = "monthly"
      /\ DateLe(yfargs[1], yfargs[2]) /\ DateLe(yfargs[2], yfargs[3]) )
    => yfout.ab + yfout.bc = yfout.ac

\* a window split inside a month, its parts in months of three lengths
C18_Witness ==
    /\ yfout.conv = "monthly"
    /\ yfargs = <<Date(2020, 1, 15), Date(2020, 2, 15), Date(2020, 4, 30)>>
    /\ yfout.ab > 0 /\ yfout.bc > 0
    /\ yfout.ab + yfout.bc = yfout.ac


-----------------------------------------------------------------------------
(* field_values and flatten, utils.py 128-154                               *)

\* periods in the list given to field_values
MaxPeriods == 2

\* (start, end) pairs, as day numbers
PeriodSet == { <<0, 1>>, <<1, 3>> }

\* a field value that is no node: a date, a relativedelta, a number, a list
Scalar == [kind |-> "scalar", callable |-> FALSE, amt |-> 0, fields |-> <<>>]

\* a node: its fields in the order of model_fields as <<name, value>>;
\* callable when the class defines __call__(from_dt, to_dt), which then
\* returns amt for every day of the period
ExportNode(callable, amt, fields) ==
    [kind |-> "node", callable |-> callable, amt |-> amt, fields |-> fields]

\* the node classes of companion.py and example.py
AvgMonthlyRentPSF(amt) ==
    ExportNode(TRUE, amt, << <<"ref_date", Scalar>>, <<"freq", Scalar>>,
                             <<"initial_rent_psf", Scalar>> >>)
AvgVacancyRate(amt) ==
    ExportNode(TRUE, amt, << <<"ref_date", Scalar>>, <<"freq", Scalar>>,
                             <<"vacancy_rates", Scalar>> >>)
GrossPotentialRent(amt, rent) ==
    ExportNode(TRUE, amt, << <<"ref_date", Scalar>>, <<"freq", Scalar>>,
                             <<"sf", Scalar>>, <<"avg_monthly_rent_psf", rent>> >>)
EffectiveGrossIncome(amt, vac, gpr) ==
    ExportNode(TRUE, amt, << <<"ref_date", Scalar>>, <<"freq", Scalar>>,
                             <<"avg_vacancy_rate", vac>>,
                             <<"gross_potential_rent", gpr>> >>)
\* a Node subclass without __call__ (example.py: Parent)
PlainParent == ExportNode(FALSE, 0, << <<"luftballons", Scalar>> >>)
\* a Node subclass without fields (example.py: Revenue)
Revenue(amt) == ExportNode(TRUE, amt, <<>>)
NetIncome(amt, rev, exp) ==
    ExportNode(TRUE, amt, << <<"revenue", rev>>, <<"expenses", exp>> >>)

ExportTrees ==
    { AvgMonthlyRentPSF(a) : a \in 1..2 }
    \cup { GrossPotentialRent(a, AvgMonthlyRentPSF(b)) : a \in 1..2, b \in 1..2 }
    \cup { EffectiveGrossIncome(a, AvgVacancyRate(1),
                                GrossPotentialRent(b, AvgMonthlyRentPSF(2))) :
               a \in 1..2, b \in 1..2 }
    \cup { NetIncome(a, Revenue(b), PlainParent) : a \in 1..2, b \in 1..2 }
    \cup { NetIncome(a, Revenue(1), NetIncome(b, Revenue(2), Revenue(1))) :
               a \in 1..2, b \in 1..2 }

\* the values of a mapping: a list of numbers or a nested mapping, itself a
\* sequence of <<key, value>> in insertion order
ListV(q) == [kind |-> "list", list |-> q, dict |-> <<>>]
DictV(d) == [kind |-> "dict", list |-> <<>>, dict |-> d]

\* series(*period) for a node with __call__
Amount(v, period) == v.amt * (period[2] - period[1])

\* [series(*period) for period in periods] (line 139)
OwnSeries(v, ps) == [i \in 1..Len(ps) |-> Amount(v, ps[i])]

\* field_values(series, periods) (lines 128-140): a value without
\* model_fields raises AttributeError, which ends the loop over the fields;
\* a field whose field_values raises TypeError is passed over; the call
\* series(*period) raises TypeError when series is not callable, and is
\* made once for every period
RECURSIVE FieldValues(_, _)
RECURSIVE FieldEntries(_, _, _)
FieldEntries(fs, ps, k) ==
    IF k = 0 THEN <<>>
    ELSE LET r == FieldValues(fs[k][2], ps)
             before == FieldEntries(fs, ps, k - 1)
         IN  IF r.ok THEN Append(before, <<fs[k][1], DictV(r.dict)>>) ELSE before

FieldValues(v, ps) ==
    LET entries == IF v.kind = "node"
                   THEN FieldEntries(v.fields, ps, Len(v.fields))
                   ELSE <<>>
    IN  IF v.callable \/ ps = <<>>
        THEN [ok |-> TRUE, dict |-> Append(entries, <<"", ListV(OwnSeries(v, ps))>>)]
        ELSE [ok |-> FALSE, dict |-> <<>>]

\* `parent_key or x`: None and '' are both false; None is held as ""
OrElse(parent_key, x) == IF parent_key = "" THEN x ELSE parent_key

\* a key that ends every node's own series with a dot
NewKeyTrailing(parent_key, key) ==
    IF key # "" THEN OrElse(parent_key, "") \o "." \o key ELSE parent_key \o "."

\* new_key (line 145)
NewKey(parent_key, key) ==
    IF key # "" THEN OrElse(parent_key, "") \o "." \o key ELSE OrElse(parent_key, ".")

\* _flatten_gen(d, parent_key) (lines 143-149): the pairs it yields
RECURSIVE FlattenGen(_, _)
RECURSIVE FlattenGenUpTo(_, _, _)
FlattenGenUpTo(d, parent_key, k) ==
    IF k = 0 THEN <<>>
    ELSE LET new_key == NewKey(parent_key, d[k][1])
             value == d[k][2]
         IN  FlattenGenUpTo(d, parent_key, k - 1)
             \o (IF value.kind = "dict"
                 THEN FlattenGen(value.dict, new_key)
                 ELSE << <<new_key, value>> >>)

FlattenGen(d, parent_key) == FlattenGenUpTo(d, parent_key, Len(d))

\* dict(pairs): a key that comes again keeps its place and takes the new value
RECURSIVE DictOf(_)
DictOf(kvs) ==
    IF kvs = <<>> THEN <<>>
    ELSE LET before == DictOf(SubSeq(kvs, 1, Len(kvs) - 1))
             last == kvs[Len(kvs)]
         IN  IF \E i \in 1..Len(before) : before[i][1] = last[1]
             THEN [i \in 1..Len(before) |->
                      IF before[i][1] = last[1] THEN last ELSE before[i]]
             ELSE Append(before, last)

\* flatten(d) (lines 152-154)
flatten(d) == DictOf(FlattenGen(d, ""))

\* field_values(etree, eperiods)
FieldValuesCall ==
    /\ estage = "new"
    /\ values' = FieldValues(etree, eperiods)
    /\ estage' = IF values'.ok THEN "values" ELSE "raised"
    /\ UNCHANGED <<etree, eperiods, flat>>
    /\ UNCHANGED <<cacheVars, seriesVars, mergeVars, sumVars, treeVars, yfVars,
                   serialVars>>

\* flatten(field_values(etree, eperiods))
FlattenCall ==
    /\ estage = "values"
    /\ flat' = flatten(values.dict)
    /\ estage' = "flat"
    /\ UNCHANGED <<etree, eperiods, values>>
    /\ UNCHANGED <<cacheVars, seriesVars, mergeVars, sumVars, treeVars, yfVars,
                   serialVars>>

InitExport ==
    /\ etree \in ExportTrees \cup {PlainParent}
    /\ eperiods \in UNION { [1..n -> PeriodSet] : n \in 0..MaxPeriods }
    /\ values = [ok |-> FALSE, dict |-> <<>>]
    /\ flat = <<>>
    /\ estage = "new"
    /\ CacheIdle /\ SeriesIdle /\ MergeIdle /\ SumIdle /\ TreeIdle /\ YFIdle
    /\ SerialIdle

NextExport == FieldValuesCall \/ FlattenCall

SpecExport == InitExport /\ [][NextExport]_vars

\* a field value that is itself an evaluable node
Evaluable(v) == v.kind = "node" /\ v.callable

\* the mapping the claim describes for the node v: its evaluable fields,
\* each with its own mapping, and its own series under ""
RECURSIVE Described(_, _)
RECURSIVE DescribedEntries(_, _, _)
DescribedEntries(fs, ps, k) ==
    IF k = 0 THEN <<>>
    ELSE IF Evaluable(fs[k][2])
    THEN Append(DescribedEntries(fs, ps, k - 1),
                <<fs[k][1], DictV(Described(fs[k][2], ps))>>)
    ELSE DescribedEntries(fs, ps, k - 1)

Described(v, ps) ==
    Append(DescribedEntries(v.fields, ps, Len(v.fields)),
           <<"", ListV(OwnSeries(v, ps))>>)

(* C14: for every evaluable node and every period list, the empty list     *)
(* too, field_values returns a mapping whose "" key holds the node's       *)
(* results in the order of the periods and whose other keys are exactly    *)
(* the fields that are evaluable nodes, each with its own recursive        *)
(* result; scalar fields are left out and raise no error.                  *)
C14_EvaluableFieldsOnly ==
    (estage # "new" /\ Evaluable(etree)) =>
        /\ values.ok
        /\ Range(values.dict) = Range(Described(etree, eperiods))

\* the paths, as sequences of keys, of the mappings nested in d, d itself
\* being at <<>>
RECURSIVE DictPaths(_)
DictPaths(d) ==
    { <<>> } \cup
    UNION { { <<d[i][1]>> \o q : q \in DictPaths(d[i][2].dict) } :
                i \in { j \in 1..Len(d) : d[j][2].kind = "dict" } }

\* the mapping at the path q of d
RECURSIVE DictAt(_, _)
DictAt(d, q) ==
    IF q = <<>> THEN d
    ELSE LET i == CHOOSE j \in 1..Len(d) : d[j][1] = q[1]
         IN  DictAt(d[i][2].dict, Tail(q))

\* the value under "" of the mapping d
OwnLeaf(d) == LET i == CHOOSE j \in 1..Len(d) : d[j][1] = "" IN d[i][2]

\* the field names of q, each after a dot: ".a.b"
RECURSIVE JoinDots(_)
JoinDots(q) == IF q = <<>> THEN "" ELSE "." \o q[1] \o JoinDots(Tail(q))

(* C15 as stated: the flat mapping has one entry for every node of the     *)
(* nested mapping, each node's own series being keyed by its path of field *)
(* names followed by a dot, for the root and for nested nodes alike, and   *)
(* no two nodes share a key.                                               *)
C15_TrailingDotEverywhere ==
    estage = "flat" =>
        /\ Range(flat) = { <<JoinDots(q) \o ".", OwnLeaf(DictAt(values.dict, q))>> :
                               q \in DictPaths(values.dict) }
        /\ Len(flat) = Cardinality(DictPaths(values.dict))

(* C15: the flat mapping has one entry for every mapping nested in the     *)
(* result of field_values; the root's own series is keyed ".", a nested    *)
(* node's by its path of field names with a dot before each name and none  *)
(* after the last, and no two of them share a key.                         *)
C15_PathKeys ==
    estage = "flat" =>
        /\ Range(flat) = { <<IF q = <<>> THEN "." ELSE JoinDots(q),
                             OwnLeaf(DictAt(values.dict, q))>> :
                               q \in DictPaths(values.dict) }
        /\ Len(flat) = Cardinality(DictPaths(values.dict))

\* a tree of three levels over two periods: the grandchild's series is keyed
\* by both field names
C15_Witness ==
    /\ estage = "flat"
    /\ Len(eperiods) = 2
    /\ \E i \in 1..Len(flat) :
           flat[i][1] = ".gross_potential_rent.avg_monthly_rent_psf"
    /\ \E i \in 1..Len(flat) : flat[i][1] = "."
    /\ Len(flat) = 4


-----------------------------------------------------------------------------
(* Serialization: RelativeDeltaAnnotation, models.py 45-93, and the round   *)
(* trip of companion.py 259-273, 306-308                                    *)

\* An optional integer is <<>> for None and <<v>> for the value v.

\* the keyword arguments a freq is made from: the relative months and days,
\* and the absolute day (Field(ge=0, le=31)) and hour (Field(ge=0, le=23))
FreqKwargs ==
    [months : {0, 1, 13}, days : {0, 7},
     day : {<<>>, <<0>>, <<31>>}, hour : {<<>>, <<0>>, <<6>>}]

\* relativedelta(**kwargs): the relative fields default to 0 and are
\* normalized by _fix, the absolute ones default to None
MakeFreq(kw) ==
    [rel |-> RelativeDelta(0, kw.months, kw.days), day |-> kw.day, hour |-> kw.hour]

\* _serialize (lines 86-90) on a relative field: handler(self) gives the
\* number, and `v != 0` drops a zero
DumpRelative(x) == IF x = 0 THEN <<>> ELSE <<x>>

\* _serialize on an absolute field: None is dropped, and so is a zero
DumpAbsolute(o) == IF o = <<>> THEN <<>> ELSE IF o[1] = 0 THEN <<>> ELSE o

\* the document of a relativedelta: the keys that are left, <<>> for a key
\* that is not in the document
DumpFreq(rd) ==
    [years |-> DumpRelative(rd.rel.years),
     months |-> DumpRelative(rd.rel.months),
     days |-> DumpRelative(rd.rel.days),
     day |-> DumpAbsolute(rd.day),
     hour |-> DumpAbsolute(rd.hour)]

\* a keyword argument that is not given takes relativedelta's default 0
Given(o) == IF o = <<>> THEN 0 ELSE o[1]

\* _validate (lines 72-84) on a document: the keys that are not None are
\* passed to relativedelta(**kwargs)
LoadFreq(doc) ==
    [rel |-> RelativeDelta(Given(doc.years), Given(doc.months), Given(doc.days)),
     day |-> doc.day, hour |-> doc.hour]

\* cls(ref_date=, freq=, child) with model_post_init: the child's _parent
\* refers to the new node; child is <<>> when the class has no node field
SerialNode(ref_date, freq, child) ==
    [ref_date |-> ref_date, freq |-> freq, has_parent |-> FALSE,
     child |-> IF child = <<>> THEN <<>>
               ELSE <<[child[1] EXCEPT !.has_parent = TRUE]>>]

\* model_dump_json(): the fields; the private _parent is not a field
RECURSIVE DumpTree(_)
DumpTree(t) ==
    [ref_date |-> t.ref_date, freq |-> DumpFreq(t.freq),
     child |-> IF t.child = <<>> THEN <<>> ELSE <<DumpTree(t.child[1])>>]

\* model_validate_json(): the fields are validated, the innermost node
\* first, and every node is constructed as by its class
RECURSIVE LoadTree(_)
LoadTree(doc) ==
    SerialNode(doc.ref_date, LoadFreq(doc.freq),
               IF doc.child = <<>> THEN <<>> ELSE <<LoadTree(doc.child[1])>>)

\* the trees: a node alone, or a node with one node field
SerialLeaves ==
    { SerialNode(Date(2019, 12, 31), MakeFreq(kw), <<>>) : kw \in FreqKwargs }
SerialTrees ==
    SerialLeaves \cup
    { SerialNode(Date(2019, 12, 31), MakeFreq(kw), <<c>>) :
          kw \in { k \in FreqKwargs : k.days = 0 /\ k.day = <<>> },
          c \in { l \in SerialLeaves : l.freq.rel.months = 1 } }

\* noi.model_dump_json()
ModelDump ==
    /\ sstage = "new"
    /\ sdoc' = <<DumpTree(stree)>>
    /\ sstage' = "dumped"
    /\ UNCHANGED <<stree, srestored, sredump>>
    /\ UNCHANGED <<cacheVars, seriesVars, mergeVars, sumVars, treeVars, yfVars,
                   exportVars>>

\* NetOperatingIncome.model_validate_json(...)
ModelValidate ==
    /\ sstage = "dumped"
    /\ srestored' = <<LoadTree(sdoc[1])>>
    /\ sstage' = "loaded"
    /\ UNCHANGED <<stree, sdoc, sredump>>
    /\ UNCHANGED <<cacheVars, seriesVars, mergeVars, sumVars, treeVars, yfVars,
                   exportVars>>

\* new_noi.model_dump_json()
ModelDumpAgain ==
    /\ sstage = "loaded"
    /\ sredump' = <<DumpTree(srestored[1])>>
    /\ sstage' = "redumped"
    /\ UNCHANGED <<stree, sdoc, srestored>>
    /\ UNCHANGED <<cacheVars, seriesVars, mergeVars, sumVars, treeVars, yfVars,
                   exportVars>>

InitSerial ==
    /\ stree \in SerialTrees
    /\ sdoc = <<>> /\ srestored = <<>> /\ sredump = <<>>
    /\ sstage = "new"
    /\ CacheIdle /\ SeriesIdle /\ MergeIdle /\ SumIdle /\ TreeIdle /\ YFIdle
    /\ ExportIdle

NextSerial == ModelDump \/ ModelValidate \/ ModelDumpAgain

SpecSerial == InitSerial /\ [][NextSerial]_vars

\* every node below the root has its parent set
RECURSIVE Wired(_)
Wired(t) ==
    t.child = <<>> \/ (t.child[1].has_parent /\ Wired(t.child[1]))

(* C16: for every constructible node tree, whatever interval fields        *)
(* validation accepts, optional fields set to zero included, validating    *)
(* the serialized tree gives a tree equal to the first with the parents    *)
(* wired, and serializing that tree gives the same document again.         *)
C16_RoundTrip ==
    sstage = "redumped" =>
        /\ srestored[1] = stree
        /\ Wired(srestored[1])
        /\ sredump = sdoc

=============================================================================
